---------------------------- MODULE Spec2Model ----------------------------
(* The "measure" command of ripe-atlas-tools (commands/measure.py) and the   *)
(* result stream it opens: Factory -> argument parsing -> run() ->           *)
(* create() -> stream(), with the Stream Controller (streaming.Stream, whose *)
(* source is not in src/) modelled from sections 3, 4 and 7 of the design.   *)
EXTENDS Integers, Sequences, FiniteSets, TLC

(* ------------------------------ bounds --------------------------------- *)
\* largest --probes value tried (the capture limit of the stream)
MaxProbes == 2
\* number of feed events (results, metadata) one stream may receive
MaxEvents == 3
\* the clock advances in steps of this many seconds (polling granularity)
Granularity == 100
\* the clock stops advancing here
MaxClock == 700
\* close() calls made on one channel
MaxCloses == 2

(* --------------------------- program constants ------------------------- *)
\* measure.py:247  Stream(capture_limit=self.arguments.probes, timeout=300)
timeout_short == 300 \div 10
timeout == 300

\* an optional value: <<>> is None, <<v>> is v
None == <<>>
Some(v) == <<v>>
\* Python truthiness of an optional integer (None and 0 are falsy)
Truthy(o) == o # None /\ o[1] # 0

\* measure.py:28-35
CREATION_CLASSES == {"ping", "traceroute", "dns", "ssl", "http", "ntp"}

\* measure.py:641-647
TYPES == {"ping", "traceroute", "dns", "ssl", "ntp"}

\* what the user may type as the measurement kind
Argv1 == CREATION_CLASSES \cup {"bogus"}

\* renderers/raw.py:10-17
RawRENDERS == {"ping", "traceroute", "dns", "ssl", "http", "ntp"}

\* The registry (design 4.1): the renderers by name, each with the set of
\* types it RENDERS.  "raw" is renderers/raw.py; "ping" stands for a
\* type-specific renderer, which is also the default bound to its type.
AvailableRenderers == {"raw", "ping"}
RENDERS(name) == IF name = "raw" THEN RawRENDERS ELSE {"ping"}
DefaultRenderer(kind) == IF kind = "ping" THEN Some("ping") ELSE None

\* design 4.1: selectRenderer(explicitName, measurementType)
\* the result is <<"ok", renderer>> or <<"error", name of the error>>
selectRenderer(explicitName, kind) ==
    IF explicitName # None
    THEN IF explicitName[1] \notin AvailableRenderers
         THEN <<"error", "UnknownRendererError">>
         ELSE IF kind \notin RENDERS(explicitName[1])
              THEN <<"error", "IncompatibleRendererError">>
              ELSE <<"ok", explicitName[1]>>
    ELSE IF DefaultRenderer(kind) = None
         THEN <<"error", "UnsupportedTypeError">>
         ELSE <<"ok", DefaultRenderer(kind)[1]>>

RendererErrors ==
    {"UnknownRendererError", "UnsupportedTypeError", "IncompatibleRendererError"}

(* ------------------------------ the feed ------------------------------- *)
\* measurement ids on the feed; the created measurement gets CreatedId
MsmIds == {5, 9}
CreatedIds == {5}
ProbeIds == {1, 2}

\* one wire record: decodable or not, and what it decodes to
WireRecords == [ok : BOOLEAN, msm_id : MsmIds, prb_id : ProbeIds]

\* Result Decoder (external, design 2.1): None when the record is malformed
Decode(raw) ==
    IF raw.ok THEN Some([msm_id |-> raw.msm_id, prb_id |-> raw.prb_id,
                         raw_data |-> [msm_id |-> raw.msm_id,
                                       prb_id |-> raw.prb_id]])
    ELSE None

Digits == <<"1", "2", "3", "4", "5", "6", "7", "8", "9">>
Str(n) == Digits[n]

\* json.dumps(d, separators=(",", ":")) of a result's raw data, as the
\* sequence of its tokens
JsonDumps(d) ==
    <<"{", "\"msm_id\"", ":", Str(d.msm_id), ",",
      "\"prb_id\"", ":", Str(d.prb_id), "}">>

\* renderers/raw.py:19-20  one compact JSON line per result
on_result_no_newline(result) == JsonDumps(result.raw_data)
on_result(result) == JsonDumps(result.raw_data) \o <<"\n">>

\* number of lines written to standard output
RECURSIVE Lines(_)
Lines(s) == IF s = <<>> THEN 0
            ELSE (IF Head(s) = "\n" THEN 1 ELSE 0) + Lines(Tail(s))

\* measure.py:203
Url(pk) == <<"endpoint", "/measurements/", Str(pk), "/">>


(* ------------------------------- state --------------------------------- *)
VARIABLES
    pc,             \* where the command is: factory, parse, run, created,
                    \* stream, done
    argv1,          \* sys.argv[1], the measurement kind as typed
    build_class,    \* Factory.build_class
    arguments,      \* self.arguments (no_report is rewritten by the code)
    conf,           \* conf["specification"]["times"]
    type,           \* self._type
    is_oneoff,      \* self._is_oneoff
    request,        \* the AtlasCreateRequest submitted, None before
    net,            \* network operations performed, in order
    messages,       \* what self.ok() and dry_run() printed, in order
    stdout,         \* the rendered results written to standard output
    exc,            \* the exception that left the command, "none" if none
    pk,             \* the id of the created measurement
    capture_limit,  \* Stream.capture_limit
    idle_timeout,   \* Stream.timeout
    renderer,       \* the renderer selected for the stream
    ctl_state,      \* the Stream Controller's state
    receivedCount,  \* results accepted by the controller
    outcome,        \* why the stream stopped, "none" while it has not
    channel,        \* the subscription: none, connecting, open, closed
    now,            \* the clock, seconds since the stream was started
    lastEvent,      \* the clock at the last received event
    nEvents,        \* feed events delivered
    nGood,          \* delivered records that decode and carry the
                    \* subscription's measurement id
    cache,          \* probe metadata cached by probe id
    start_error,    \* what a start() on the Closed controller answered
    closes          \* close() calls made on the channel

cmd_vars == <<pc, argv1, build_class, arguments, conf, type, is_oneoff, request, net,
              messages, stdout, exc, pk>>
ctl_vars == <<capture_limit, idle_timeout, renderer, ctl_state,
              receivedCount, outcome, channel, now, lastEvent, nEvents,
              nGood, cache, start_error, closes>>
vars == <<cmd_vars, ctl_vars>>

OptRenderers == {None} \cup {Some(n) : n \in AvailableRenderers \cup {"bogus"}}

Arguments ==
    [renderer : OptRenderers,
     dry_run : BOOLEAN,
     no_report : BOOLEAN,
     interval : {None, Some(0), Some(60)},
     probes : 1 .. MaxProbes,
     target : {None, Some("example.com")},
     query_argument : {None, Some("example.com")}]

Confs == [interval : {None, Some(60)}, oneoff : BOOLEAN]

\* measure.py:37-42  Command.__init__, and the Stream not yet constructed
Init ==
    /\ pc = "factory"
    /\ argv1 \in Argv1
    /\ build_class = None
    /\ arguments \in Arguments
    /\ conf \in Confs
    /\ type = None
    /\ is_oneoff = TRUE
    /\ request = None
    /\ net = <<>>
    /\ messages = <<>>
    /\ stdout = <<>>
    /\ exc = "none"
    /\ pk = None
    /\ capture_limit = 0
    /\ idle_timeout = 0
    /\ renderer = None
    /\ ctl_state = "Idle"
    /\ receivedCount = 0
    /\ outcome = "none"
    /\ channel = "none"
    /\ now = 0
    /\ lastEvent = 0
    /\ nEvents = 0
    /\ nGood = 0
    /\ cache = {}
    /\ start_error = "none"
    /\ closes = 0

(* --------------------------- the command ------------------------------- *)
\* measure.py:653  self.TYPES.get(sys.argv[1].lower()): the command class
\* registered for the kind, None when there is none
TYPES_get(kind) == IF kind \in TYPES THEN Some(kind) ELSE None

\* measure.py:649-659  Factory.__init__
Factory ==
    /\ pc = "factory"
    /\ build_class' = TYPES_get(argv1)
    /\ IF TYPES_get(argv1) # None
       THEN pc' = "parse" /\ exc' = exc
       ELSE pc' = "done" /\ exc' = "RipeAtlasToolsException"
    /\ UNCHANGED <<argv1, arguments, conf, type, is_oneoff, request, net,
                   messages, stdout, pk, ctl_vars>>

\* measure.py:44-64 and 68-73: the kind is taken off the arguments, then
\* argparse refuses a --renderer that is not one of Renderer.get_available()
modify_parser_args ==
    /\ pc = "parse"
    /\ IF argv1 \notin CREATION_CLASSES
       THEN pc' = "done" /\ exc' = "RipeAtlasToolsException" /\ type' = type
       ELSE /\ type' = Some(argv1)
            /\ IF /\ arguments.renderer # None
                  /\ arguments.renderer[1] \notin AvailableRenderers
               THEN pc' = "done" /\ exc' = "SystemExit"
               ELSE pc' = "run" /\ exc' = exc
    /\ UNCHANGED <<argv1, build_class, arguments, conf, is_oneoff, request, net,
                   messages, stdout, pk, ctl_vars>>

\* measure.py:255-262, 581-585  clean_target: None stands for the raise
clean_target(args, kind) ==
    IF kind = "dns" THEN Some(args.target)
    ELSE IF args.target = None THEN None ELSE Some(args.target)

\* measure.py:284  the condition that makes the measurement recurring
recurring_option_only(args, cf) == Truthy(args.interval)
recurring(args, cf) == Truthy(args.interval) \/ Truthy(cf.interval)

\* measure.py:272-298 (and 592-613 for dns): the kwargs r, with the
\* assignments to self._is_oneoff and self.arguments.no_report
get_measurement_kwargs(args, cf, kind, oneoff) ==
    IF clean_target(args, kind) = None
    THEN [raised |-> TRUE, r |-> <<>>, is_oneoff |-> oneoff,
          no_report |-> args.no_report]
    ELSE IF recurring(args, cf)
    THEN [raised |-> kind = "dns" /\ args.query_argument = None,
          r |-> [k \in {"interval"} \cup
                       (IF args.target # None THEN {"target"} ELSE {})
                   |-> IF k = "interval" THEN args.interval ELSE args.target],
          is_oneoff |-> FALSE,
          no_report |-> TRUE]
    ELSE IF ~cf.oneoff
    THEN [raised |-> TRUE, r |-> <<>>, is_oneoff |-> oneoff,
          no_report |-> args.no_report]
    ELSE [raised |-> kind = "dns" /\ args.query_argument = None,
          r |-> [k \in (IF args.target # None THEN {"target"} ELSE {})
                   |-> args.target],
          is_oneoff |-> oneoff,
          no_report |-> args.no_report]

\* measure.py:194  if self.arguments.dry_run
run_is_dry_never(args) == FALSE
run_is_dry(args) == args.dry_run

\* measure.py:194-195 and 213-231  run() with --dry-run
dry_run ==
    /\ pc = "run"
    /\ run_is_dry(arguments)
    /\ LET kw == get_measurement_kwargs(arguments, conf, type[1], is_oneoff)
       IN /\ is_oneoff' = kw.is_oneoff
          /\ arguments' = [arguments EXCEPT !.no_report = kw.no_report]
          /\ IF kw.raised
             THEN /\ exc' = "RipeAtlasToolsException"
                  /\ messages' = Append(messages, <<"Definitions:">>)
             ELSE /\ exc' = exc
                  /\ messages' = messages \o
                         << <<"Definitions:">>, <<"Sources:">> >>
    /\ pc' = "done"
    /\ UNCHANGED <<argv1, build_class, conf, type, request, net, stdout, pk, ctl_vars>>

\* measure.py:197 and 233-242  run() without --dry-run, up to the request
create ==
    /\ pc = "run"
    /\ ~run_is_dry(arguments)
    /\ LET kw == get_measurement_kwargs(arguments, conf, type[1], is_oneoff)
       IN /\ is_oneoff' = kw.is_oneoff
          /\ arguments' = [arguments EXCEPT !.no_report = kw.no_report]
          /\ IF kw.raised
             THEN /\ exc' = "RipeAtlasToolsException"
                  /\ pc' = "done"
                  /\ UNCHANGED <<request, net>>
             ELSE /\ request' = Some([is_oneoff |-> kw.is_oneoff,
                                      measurement |-> kw.r,
                                      requested |-> arguments.probes])
                  /\ net' = Append(net, "create")
                  /\ pc' = "created"
                  /\ exc' = exc
    /\ UNCHANGED <<argv1, build_class, conf, type, messages, stdout, pk, ctl_vars>>

\* measure.py:247  the capture limit handed to the Stream
stream_capture_limit_off_by_one(args) == args.probes + 1
stream_capture_limit(args) == args.probes

\* measure.py:199-211 and 244-248: the answer to the create request, the
\* "Looking good" message and, unless no_report, the start of stream()
run ==
    /\ pc = "created"
    /\ \E is_success \in BOOLEAN, id \in CreatedIds :
         IF ~is_success
         THEN /\ exc' = "RipeAtlasToolsException"
              /\ pc' = "done"
              /\ UNCHANGED <<messages, pk, capture_limit, idle_timeout>>
         ELSE /\ pk' = Some(id)
              /\ exc' = exc
              /\ IF ~arguments.no_report
                 THEN /\ messages' = messages \o
                           << <<"Looking good!">> \o Url(id),
                              <<"Connecting to stream...">> >>
                      /\ capture_limit' = stream_capture_limit(arguments)
                      /\ idle_timeout' = timeout
                      /\ pc' = "stream"
                 ELSE /\ messages' =
                           Append(messages, <<"Looking good!">> \o Url(id))
                      /\ pc' = "done"
                      /\ UNCHANGED <<capture_limit, idle_timeout>>
    /\ UNCHANGED <<argv1, build_class, arguments, conf, type, is_oneoff, request, net,
                   stdout, renderer, ctl_state, receivedCount, outcome,
                   channel, now, lastEvent, nEvents, nGood, cache,
                   start_error, closes>>

(* ----------------------- the Stream Controller ------------------------- *)
\* The controller (streaming.Stream) is modelled from the design, 4.3:
\* Idle -> Connecting -> Streaming -> Draining -> Closed.  receivedCount
\* counts the Results accepted (section 3, CaptureLimit: "how many Results
\* are accepted before the controller self-terminates").

\* seconds of silence: measured from the last received event
IdleFor == now - lastEvent

\* Stream.stream(renderer_name, kind, pk), first part: the renderer is
\* selected (design 7: before the subscription is opened); a selection
\* error leaves stream() at once, otherwise start() opens the subscription
stream_start ==
    /\ pc = "stream"
    /\ ctl_state = "Idle"
    /\ LET sel == selectRenderer(arguments.renderer, type[1])
       IN IF sel[1] = "error"
          THEN /\ exc' = sel[2]
               /\ messages' = Append(messages,
                       <<"Disconnecting from stream">> \o Url(pk[1]))
               /\ pc' = "done"
               /\ UNCHANGED <<renderer, ctl_state, channel, net>>
          ELSE /\ renderer' = Some(sel[2])
               /\ ctl_state' = "Connecting"
               /\ channel' = "connecting"
               /\ net' = Append(net, "open")
               /\ UNCHANGED <<exc, messages, pc>>
    /\ UNCHANGED <<argv1, build_class, arguments, conf, type, is_oneoff, request, stdout,
                   pk, capture_limit, idle_timeout, receivedCount, outcome,
                   now, lastEvent, nEvents, nGood, cache, start_error, closes>>

\* design 4.3, Connecting: open() succeeded
connected ==
    /\ ctl_state = "Connecting"
    /\ ctl_state' = "Streaming"
    /\ channel' = "open"
    /\ lastEvent' = now
    /\ UNCHANGED <<cmd_vars, capture_limit, idle_timeout, renderer,
                   receivedCount, outcome, now, nEvents, nGood, cache,
                   start_error, closes>>

\* design 4.3, Connecting: open() failed
connect_failed ==
    /\ ctl_state = "Connecting"
    /\ ctl_state' = "Closed"
    /\ channel' = "closed"
    /\ outcome' = "ConnectionError"
    /\ UNCHANGED <<cmd_vars, capture_limit, idle_timeout, renderer,
                   receivedCount, now, lastEvent, nEvents, nGood, cache,
                   start_error, closes>>

\* nextEvent delivers an event only before its deadline
CanReceive ==
    /\ ctl_state = "Streaming"
    /\ IdleFor < idle_timeout
    /\ nEvents < MaxEvents

\* a record is accepted when it decodes and is for the open subscription
Accepted(raw) == Decode(raw) # None /\ Decode(raw)[1].msm_id = pk[1]

\* the capture limit is reached (0 is unbounded)
LimitReached(count) == capture_limit > 0 /\ count >= capture_limit

\* design 4.3, Streaming, ResultReceived(raw)
ResultReceived ==
    /\ CanReceive
    /\ \E raw \in WireRecords :
         /\ nEvents' = nEvents + 1
         /\ lastEvent' = now
         /\ nGood' = nGood + (IF raw.ok /\ raw.msm_id = pk[1] THEN 1 ELSE 0)
         /\ IF ~Accepted(raw)
            THEN UNCHANGED <<stdout, receivedCount, ctl_state, outcome>>
            ELSE /\ receivedCount' = receivedCount + 1
                 /\ stdout' = stdout \o on_result(Decode(raw)[1])
                 /\ IF LimitReached(receivedCount + 1)
                    THEN /\ ctl_state' = "Draining"
                         /\ outcome' = "CaptureLimitReached"
                    ELSE UNCHANGED <<ctl_state, outcome>>
    /\ UNCHANGED <<pc, argv1, build_class, arguments, conf, type, is_oneoff, request, net,
                   messages, exc, pk, capture_limit, idle_timeout, renderer,
                   channel, now, cache, start_error, closes>>

\* design 4.3, Streaming, ProbeMetadata(info)
ProbeMetadata ==
    /\ CanReceive
    /\ \E p \in ProbeIds : cache' = cache \cup {p}
    /\ nEvents' = nEvents + 1
    /\ lastEvent' = now
    /\ UNCHANGED <<cmd_vars, capture_limit, idle_timeout, renderer, ctl_state,
                   receivedCount, outcome, channel, now, nGood, start_error, closes>>

\* design 4.3, Streaming, FeedError(cause)
FeedError ==
    /\ ctl_state = "Streaming"
    /\ IdleFor < idle_timeout
    /\ ctl_state' = "Draining"
    /\ outcome' = "FeedError"
    /\ UNCHANGED <<cmd_vars, capture_limit, idle_timeout, renderer,
                   receivedCount, channel, now, lastEvent, nEvents, nGood,
                   cache, start_error, closes>>

\* design 4.3, Streaming, Timeout: no event within the idle window
Timeout ==
    /\ ctl_state = "Streaming"
    /\ IdleFor >= idle_timeout
    /\ ctl_state' = "Draining"
    /\ outcome' = "IdleTimeoutExceeded"
    /\ UNCHANGED <<cmd_vars, capture_limit, idle_timeout, renderer,
                   receivedCount, channel, now, lastEvent, nEvents, nGood,
                   cache, start_error, closes>>

\* design 4.3 and 5: the operator interrupts (KeyboardInterrupt)
Cancel ==
    /\ ctl_state = "Streaming"
    /\ ctl_state' = "Draining"
    /\ outcome' = "Cancelled"
    /\ UNCHANGED <<cmd_vars, capture_limit, idle_timeout, renderer,
                   receivedCount, channel, now, lastEvent, nEvents, nGood,
                   cache, start_error, closes>>

\* time passes while the controller waits for the next event
Tick ==
    /\ ctl_state = "Streaming"
    /\ IdleFor < idle_timeout
    /\ now < MaxClock
    /\ now' = now + Granularity
    /\ UNCHANGED <<cmd_vars, capture_limit, idle_timeout, renderer, ctl_state,
                   receivedCount, outcome, channel, lastEvent, nEvents, nGood,
                   cache, start_error, closes>>

\* design 4.2, close(handle): releases the subscription; closing a closed
\* channel leaves it closed
ChannelClose(ch) == "closed"

\* design 4.3, Draining: close() the channel, then Closed
Drain_leaks ==
    /\ ctl_state = "Draining"
    /\ ctl_state' = "Closed"
    /\ UNCHANGED <<cmd_vars, capture_limit, idle_timeout, renderer,
                   receivedCount, outcome, channel, now, lastEvent, nEvents,
                   nGood, cache, start_error, closes>>
Drain ==
    /\ ctl_state = "Draining"
    /\ channel' = ChannelClose(channel)
    /\ closes' = closes + 1
    /\ ctl_state' = "Closed"
    /\ UNCHANGED <<cmd_vars, capture_limit, idle_timeout, renderer,
                   receivedCount, outcome, now, lastEvent, nEvents, nGood,
                   cache, start_error>>

\* design 4.2: close() called again on the closed channel
close_again ==
    /\ channel = "closed"
    /\ closes < MaxCloses
    /\ channel' = ChannelClose(channel)
    /\ closes' = closes + 1
    /\ UNCHANGED <<cmd_vars, capture_limit, idle_timeout, renderer, ctl_state,
                   receivedCount, outcome, now, lastEvent, nEvents, nGood,
                   cache, start_error>>

\* design 4.3, Closed: start() fails with AlreadyClosedError
start_closed_reopens ==
    /\ ctl_state = "Closed"
    /\ start_error = "none"
    /\ start_error' = "restarted"
    /\ ctl_state' = "Connecting"
    /\ channel' = "connecting"
    /\ net' = Append(net, "open")
    /\ UNCHANGED <<pc, argv1, build_class, arguments, conf, type, is_oneoff, request,
                   messages, stdout, exc, pk, capture_limit, idle_timeout,
                   renderer, receivedCount, outcome, now, lastEvent, nEvents,
                   nGood, cache, closes>>
start_closed ==
    /\ ctl_state = "Closed"
    /\ start_error = "none"
    /\ start_error' = "AlreadyClosedError"
    /\ UNCHANGED <<cmd_vars, capture_limit, idle_timeout, renderer, ctl_state,
                   receivedCount, outcome, channel, now, lastEvent, nEvents,
                   nGood, cache, closes>>

\* How Stream.stream() leaves, given why the stream stopped: the
\* exception it raises, "none" for a plain return.  measure.py:17 and 249
\* name the two exceptions of a stop; an idle timeout is no error
\* (design 7) and returns; the failures are raised.
StreamRaises(why) ==
    CASE why = "CaptureLimitReached" -> "CaptureLimitExceeded"
      [] why = "Cancelled" -> "KeyboardInterrupt"
      [] why = "IdleTimeoutExceeded" -> "none"
      [] OTHER -> why

\* measure.py:249-250  what leaves Command.stream when `raised` was raised
\* inside its try block
stream_except_interrupt_only(raised) ==
    IF raised = "KeyboardInterrupt" THEN "none" ELSE raised
stream_except_everything(raised) == "none"
stream_except(raised) ==
    IF raised \in {"KeyboardInterrupt", "CaptureLimitExceeded"}
    THEN "none"
    ELSE raised

\* measure.py:249-253  the end of Command.stream: except, then finally
stream ==
    /\ pc = "stream"
    /\ ctl_state = "Closed"
    /\ exc' = stream_except(StreamRaises(outcome))
    /\ messages' = Append(messages,
            <<"Disconnecting from stream">> \o Url(pk[1]))
    /\ pc' = "done"
    /\ UNCHANGED <<argv1, build_class, arguments, conf, type, is_oneoff, request, net,
                   stdout, pk, ctl_vars>>

Next ==
    \/ Factory
    \/ modify_parser_args
    \/ dry_run
    \/ create
    \/ run
    \/ stream_start
    \/ connected
    \/ connect_failed
    \/ ResultReceived
    \/ ProbeMetadata
    \/ FeedError
    \/ Timeout
    \/ Cancel
    \/ Tick
    \/ Drain
    \/ close_again
    \/ start_closed
    \/ stream

Spec == Init /\ [][Next]_vars

(* ------------------------------ properties ----------------------------- *)
\* the process exit status (design 6): an exception that leaves the
\* command ends the process with a non-zero status
ExitCode == IF exc = "none" THEN 0 ELSE 1

HasMessage(first) ==
    \E i \in 1 .. Len(messages) : messages[i][1] = first

Opens == Cardinality({i \in 1 .. Len(net) : net[i] = "open"})

StreamEntered == pc = "stream" \/ (pc = "done" /\ HasMessage("Connecting to stream..."))

C2_CleanStop ==
    (pc = "done" /\ outcome \in {"CaptureLimitReached", "Cancelled"}) =>
        /\ exc = "none"
        /\ ExitCode = 0
        /\ messages[Len(messages)] =
               <<"Disconnecting from stream">> \o Url(pk[1])

C2_Witness ==
    /\ pc = "done"
    /\ outcome = "Cancelled"
    /\ Lines(stdout) = 1
    /\ exc = "none"
    /\ HasMessage("Disconnecting from stream")

\* C3: when the stream ended with ConnectionError or FeedError, that
\* failure leaves Command.stream (it is not swallowed), the exit status is
\* non-zero, and the subscription was opened once only (no reconnect).
C3_FailureSurfaces ==
    /\ Opens <= 1
    /\ (pc = "done" /\ outcome \in {"ConnectionError", "FeedError"}) =>
          /\ exc = outcome
          /\ ExitCode # 0

C3_Witness ==
    /\ pc = "done"
    /\ outcome = "FeedError"
    /\ exc = "FeedError"
    /\ Opens = 1

\* What the caller of Command.stream gets: the exception that left it, or
\* the None it returns (it has no return statement).
Reported == IF exc # "none" THEN exc ELSE "None"

\* C4: every completed stream() tells its caller why it stopped: after a
\* stream that stopped, the caller holds something other than a bare None.
C4_StopReasonReported ==
    (pc = "done" /\ outcome # "none") => Reported # "None"

\* C5: a run that ends with a renderer-selection error has performed no
\* network I/O: neither the create request nor the subscription open().
C5_SelectionBeforeIO ==
    (pc = "done" /\ exc \in RendererErrors) => net = <<>>

C7_DryRun ==
    arguments.dry_run =>
        /\ request = None
        /\ net = <<>>
        /\ pc \notin {"created", "stream"}
        /\ ctl_state = "Idle"

C7_Witness ==
    /\ pc = "done"
    /\ arguments.dry_run
    /\ ~arguments.no_report
    /\ exc = "none"
    /\ HasMessage("Definitions:")
    /\ HasMessage("Sources:")

\* C8: a stream of the measure command stops with IdleTimeoutExceeded only
\* after 300 seconds of silence since the last received event, however long
\* it has been running; while the silence is shorter it has not timed out.
C8_IdleFromLastEvent ==
    /\ outcome = "IdleTimeoutExceeded" => now - lastEvent >= 300
    /\ (StreamEntered /\ ctl_state # "Idle") => idle_timeout = 300

C8_Witness ==
    /\ outcome = "IdleTimeoutExceeded"
    /\ lastEvent > 300
    /\ now - lastEvent >= 300
    /\ nEvents >= 2

\* C9: a record that does not decode, or is for another measurement,
\* writes nothing and leaves the stream in Streaming; the lines rendered
\* are as many as the well-formed records received for the subscription.
C9_BadRecordsDropped ==
    /\ [](Lines(stdout) = nGood)
    /\ [][(nEvents' = nEvents + 1 /\ nGood' = nGood) =>
             (ctl_state' = "Streaming" /\ stdout' = stdout /\ outcome' = outcome)]_vars

C9_Witness ==
    /\ nEvents = 3
    /\ nGood = 2
    /\ Lines(stdout) = 2
    /\ cache = {}
    /\ arguments.probes = 2
    /\ ctl_state = "Closed"
    /\ outcome = "CaptureLimitReached"

Order(st) ==
    CASE st = "Idle" -> 0
      [] st = "Connecting" -> 1
      [] st = "Streaming" -> 2
      [] st = "Draining" -> 3
      [] st = "Closed" -> 4

\* C10: the controller's state moves only Idle -> Connecting -> Streaming
\* -> Draining -> Closed or Connecting -> Closed; once Closed it stays
\* Closed, nothing more is rendered and no subscription is opened, and
\* start() then answers AlreadyClosedError.
C10_Lifecycle ==
    [][/\ ctl_state' # ctl_state =>
            \/ Order(ctl_state') = Order(ctl_state) + 1
            \/ (ctl_state = "Connecting" /\ ctl_state' = "Closed")
       /\ ctl_state = "Closed" =>
            /\ ctl_state' = "Closed"
            /\ stdout' = stdout
            /\ net' = net
            /\ channel' = channel
            /\ start_error' \in {start_error, "AlreadyClosedError"}
      ]_vars

C10_Witness ==
    /\ ctl_state = "Closed"
    /\ start_error = "AlreadyClosedError"
    /\ outcome = "CaptureLimitReached"
    /\ pc = "done"

\* C11: at most one subscription is ever opened by a controller; whatever
\* stopped the stream (capture limit, idle timeout, feed error,
\* cancellation), the channel is closed once the controller is Closed; and
\* a close() on the closed channel leaves it closed and changes nothing
\* else.
C11_ChannelNotLeaked ==
    /\ [](/\ Opens <= 1
          /\ ctl_state = "Closed" => channel = "closed"
          /\ channel = "open" => ctl_state \in {"Streaming", "Draining"})
    /\ [][(channel = "closed" /\ closes' # closes) =>
             /\ channel' = "closed"
             /\ UNCHANGED <<cmd_vars, ctl_state, outcome, receivedCount,
                            start_error>>]_vars

C11_Witness ==
    /\ ctl_state = "Closed"
    /\ outcome = "IdleTimeoutExceeded"
    /\ channel = "closed"
    /\ closes = 2
    /\ Opens = 1
    /\ pc = "done"

\* C12: every kind the measure command accepts (the keys of
\* CREATION_CLASSES) gets a command class from the Factory, which does not
\* fail with "The measurement type you requested is invalid".
C12_EveryKindBuildable ==
    (pc # "factory" /\ argv1 \in CREATION_CLASSES) =>
        /\ build_class # None
        /\ ~(pc = "done" /\ type = None /\ exc = "RipeAtlasToolsException")

\* C13: a create request submitted with is_oneoff false carries an
\* "interval" entry that is a set integer, and a one-off request carries no
\* "interval" entry.
C13_RecurringHasInterval ==
    request # None =>
        IF request[1].is_oneoff
        THEN "interval" \notin DOMAIN request[1].measurement
        ELSE /\ "interval" \in DOMAIN request[1].measurement
             /\ request[1].measurement["interval"] # None

=============================================================================
